---- MODULE Spec2Model ----
(***************************************************************************)
(* Process supervisor and run registry of the operational dashboard:       *)
(* dashboard/scripts_runner.py (start_subprocess, its exit watcher,        *)
(* get_status, terminate_process, the auto-attach tail loop) and           *)
(* dashboard/run_store.py (add_run, update_run_status, get_run).           *)
(*                                                                         *)
(* Threads are interleaved at the statements that touch shared state: the  *)
(* module-level dictionaries, the Popen object, the registry and the       *)
(* operating system's process table.                                       *)
(***************************************************************************)
EXTENDS Integers, Sequences, FiniteSets, TLC

\* ---------------------------------------------------------------- bounds
MaxRuns == 2          \* Popen objects created over a behaviour
MaxPid == 2           \* size of the operating system's pid space
MaxClock == 1         \* wall-clock seconds 0..MaxClock
MaxForceAfter == 2    \* largest force_after, in polling intervals of 0.1 s
MaxTailers == 1       \* tailer control objects created over a behaviour
MaxCalls == 4         \* calls a client makes on run_store directly
MoreTailers == 1      \* further control objects concurrent sessions create
MaxSessions == 2      \* sessions calling enable_auto_attach concurrently
MaxBytes == 3         \* bytes a child writes to one log file
MaxFileLines == 2     \* lines of a log file given to merge_log_tails
MaxLinesArg == 2      \* largest max_lines given to merge_log_tails
MaxMerges == 1        \* merge_log_tails calls over a behaviour

Runs == 1..MaxRuns
Pids == 1..MaxPid
TailerIds == 1..MaxTailers
LoopIds == 1..(MaxTailers + MoreTailers)
Sessions == 1..MaxSessions
Streams == {"stdout", "stderr"}

\* ------------------------------------------------------------- constants
SIGTERM == 15
SIGKILL == 9
NoSignal == 0

\* Python's None is the empty tuple, a present value v the 1-tuple <<v>>.
None == <<>>
Some(v) == <<v>>

\* Environment overrides a caller passes: none, the empty map, one variable.
EmptyEnv == [k \in {} |-> ""]
TestEnv == Some([K |-> "V"])
EnvInputs == {None, Some(EmptyEnv), TestEnv}

\* Exit codes a child chooses by itself.
OwnExitCodes == {0}

NoRun == 0

VARIABLES
    clock,              \* datetime.now() at second precision
    nruns,              \* number of Popen objects created so far
    pidOf,              \* Popen.pid of each run
    os,                 \* OS view of each child: unborn, alive, zombie, reaped
    osRc,               \* exit status the OS holds for the child
    sig,                \* strongest signal delivered to the live child
    returncode,         \* Popen.returncode
    ACTIVE_PROCS,       \* pid -> Popen (run)
    ACTIVE_LOG_PATHS,   \* pid -> log paths (of run)
    ACTIVE_TAILERS,     \* pid -> tailer control object
    tailer,             \* the tailer control objects and their loops
    runs,               \* the registry table: pid -> row
    owner,              \* history: the run whose add_run wrote the row
    handles,            \* log file handles open in the supervisor
    start,              \* the start_subprocess call in progress
    watch,              \* per run: position of its _watch_process thread
    wlog,               \* history: the registry writes of each watcher
    term,               \* the terminate_process call in progress, or the last one
    lastOf,             \* history: last status write issued for each run
    stopped,            \* history: runs a terminate_process call returned True for
    tlog,               \* history: the registry writes terminate_process made per run
    calls,              \* number of calls a client made on run_store directly
    last,               \* the last of these calls: operation, pid, arguments,
                        \* the row of pid before the call, result
    att,                \* per session: its enable_auto_attach call
    logs,               \* per run and stream: the bytes of the log file
    central,            \* history: the chunks the tail loops forwarded
    dbdown,             \* the registry database cannot be written
    foreign             \* per pid: a process group of another program
                        \* that holds the pid, and whether it was signalled

vars == <<clock, nruns, pidOf, os, osRc, sig, returncode, ACTIVE_PROCS,
          ACTIVE_LOG_PATHS, ACTIVE_TAILERS, tailer, runs, owner, handles,
          start, watch, wlog, term, lastOf, stopped, tlog, calls, last, att,
          logs, central, dbdown, foreign>>

procVars == <<nruns, pidOf, os, osRc, sig, returncode>>
mapVars == <<ACTIVE_PROCS, ACTIVE_LOG_PATHS, ACTIVE_TAILERS>>
regVars == <<runs, owner, lastOf, stopped, tlog>>
storeVars == <<calls, last>>
ioVars == <<att, logs, central, dbdown, foreign>>

\* The user interface makes one call at a time; watchers, tail loops and the
\* children run beside it.  start and term keep the outcome of the last call
\* until the next call begins.
UiIdle == start.pc = "idle" /\ term.pc = "idle"

\* The start_subprocess call: its position, the Popen object it created,
\* its outcome and the log variables it put into the child's environment.
StartIdle == [pc |-> "idle", run |-> NoRun, res |-> "none", env |-> <<>>,
              out |-> <<>>, child_env |-> <<>>]

\* The terminate_process call: pid is its argument, p is the Popen object the call
\* looked up, rem the polling intervals left until the deadline.  The other
\* fields are history of the call: its return value, the signals it
\* attempted, the status it wrote, whether the child had already exited when
\* the first signal was attempted, whether Popen.returncode was already set
\* when the kill was attempted, and whether the registry showed the run as
\* running when the call began.
TermIdle == [pc |-> "idle", pid |-> 0, p |-> NoRun, rem |-> 0, ret |-> "none",
             sent |-> <<>>, wrote |-> "none", gone |-> FALSE, late |-> FALSE,
             active |-> FALSE]

\* No call has been made on run_store directly.
NoCall == [op |-> "none", pid |-> 0, args |-> <<>>, before |-> <<>>,
           result |-> <<>>]

\* ---------------------------------------------------------- dictionaries
Put(d, k, v) == [x \in DOMAIN d \cup {k} |-> IF x = k THEN v ELSE d[x]]
Pop(d, k) == [x \in DOMAIN d \ {k} |-> d[x]]
Get(d, k) == IF k \in DOMAIN d THEN d[k] ELSE NoRun

Max(a, b) == IF a >= b THEN a ELSE b

\* ------------------------------------------------------------- run_store
\* The table runs is a function from pid, its INTEGER PRIMARY KEY, to the
\* other columns.  A nullable column holds None or Some(value).  Timestamps
\* are clock seconds; ISO-8601 text of one length compares as they do.
TerminalStatuses == {"finished", "terminated", "killed"}

\* The empty string in started_at; as text it sorts before every timestamp.
EmptyText == -1

\* Python truthiness of an optional string and of an optional dictionary.
TruthyStr(x) == x # None /\ x[1] # ""
TruthyDict(x) == x # None /\ DOMAIN x[1] # {}

\* x or "".
OrEmpty(x) == IF TruthyStr(x) THEN x[1] ELSE ""

\* json.dumps of a dictionary with string keys: the text of a JSON object,
\* its members one after the other.
RECURSIVE JsonMembers(_, _)
JsonMembers(m, keys) ==
    IF keys = {} THEN <<>>
    ELSE LET k == CHOOSE x \in keys : TRUE
         IN  <<[name |-> k, value |-> m[k]]>> \o JsonMembers(m, keys \ {k})

json_dumps(m) == [object |-> JsonMembers(m, DOMAIN m)]

\* json.loads of such a text: a dictionary again.
json_loads(text) ==
    LET ms == text.object
    IN  [k \in {ms[i].name : i \in DOMAIN ms} |->
           ms[CHOOSE i \in DOMAIN ms :
                /\ ms[i].name = k
                /\ \A j \in DOMAIN ms : ms[j].name = k => j <= i].value]

\* Variant: the backfill covers NULL but not the empty string.
init_db_nullOnly(table, now) ==
    [p \in DOMAIN table |->
       IF table[p].started_at = None
       THEN [table[p] EXCEPT !.started_at = Some(now)]
       ELSE table[p]]

\* Lines 123-133 of init_db: rows whose started_at is NULL or empty get now.
\* The CREATE TABLE IF NOT EXISTS and the column migration before it leave
\* an existing table of the current schema as it is.
init_db(table, now) ==
    [p \in DOMAIN table |->
       IF table[p].started_at \in {None, Some(EmptyText)}
       THEN [table[p] EXCEPT !.started_at = Some(now)]
       ELSE table[p]]

\* Variant: INSERT OR IGNORE, which keeps an existing row of the pid.
add_run_insertOrIgnore(table, pid, command, cwd, stdout_path, stderr_path, extra_env, started_at, now) ==
    LET t == init_db(table, now)
    IN  IF pid \in DOMAIN t THEN t
        ELSE Put(t, pid,
                 [command |-> command,
                  cwd |-> OrEmpty(cwd),
                  status |-> "running",
                  started_at |-> IF started_at = None THEN Some(now) ELSE started_at,
                  ended_at |-> None,
                  returncode |-> None,
                  stdout_path |-> OrEmpty(stdout_path),
                  stderr_path |-> OrEmpty(stderr_path),
                  env_json |-> IF TruthyDict(extra_env)
                               THEN Some(json_dumps(extra_env[1])) ELSE None])

\* Variant: an upsert that keeps the outcome columns of the row it replaces.
add_run_keepsOutcome(table, pid, command, cwd, stdout_path, stderr_path, extra_env, started_at, now) ==
    LET t == init_db(table, now)
    IN  Put(t, pid,
            [command |-> command,
             cwd |-> OrEmpty(cwd),
             status |-> "running",
             started_at |-> IF started_at = None THEN Some(now) ELSE started_at,
             ended_at |-> IF pid \in DOMAIN t THEN t[pid].ended_at ELSE None,
             returncode |-> IF pid \in DOMAIN t THEN t[pid].returncode ELSE None,
             stdout_path |-> OrEmpty(stdout_path),
             stderr_path |-> OrEmpty(stderr_path),
             env_json |-> IF TruthyDict(extra_env)
                          THEN Some(json_dumps(extra_env[1])) ELSE None])

\* add_run: init_db, then INSERT OR REPLACE keyed by pid.  returncode and
\* ended_at are not among the inserted columns and so are NULL in the new
\* row; extra_env is stored as JSON only when it is truthy.
add_run(table, pid, command, cwd, stdout_path, stderr_path, extra_env, started_at, now) ==
    LET t == init_db(table, now)
    IN  Put(t, pid,
            [command |-> command,
             cwd |-> OrEmpty(cwd),
             status |-> "running",
             started_at |-> IF started_at = None THEN Some(now) ELSE started_at,
             ended_at |-> None,
             returncode |-> None,
             stdout_path |-> OrEmpty(stdout_path),
             stderr_path |-> OrEmpty(stderr_path),
             env_json |-> IF TruthyDict(extra_env)
                          THEN Some(json_dumps(extra_env[1])) ELSE None])

\* Variant: an upsert, which creates the row when the pid has none.
update_run_status_upserts(table, pid, status, rc, now) ==
    LET t == init_db(table, now)
    IN  IF pid \in DOMAIN t
        THEN [t EXCEPT ![pid].status = status,
                       ![pid].returncode = rc,
                       ![pid].ended_at = Some(now)]
        ELSE Put(t, pid,
                 [command |-> "", cwd |-> "", status |-> status,
                  started_at |-> Some(now), ended_at |-> Some(now),
                  returncode |-> rc, stdout_path |-> "", stderr_path |-> "",
                  env_json |-> None])

\* Variant: an UPDATE that leaves the returncode column as it was.
update_run_status_keepsReturncode(table, pid, status, rc, now) ==
    LET t == init_db(table, now)
    IN  IF pid \in DOMAIN t
        THEN [t EXCEPT ![pid].status = status,
                       ![pid].ended_at = Some(now)]
        ELSE t

\* Variant: a terminal status removes the row instead of marking it.
update_run_status_deletesRow(table, pid, status, rc, now) ==
    LET t == init_db(table, now)
    IN  IF pid \in DOMAIN t
        THEN IF status \in {"terminated", "killed"}
             THEN [p \in DOMAIN t \ {pid} |-> t[p]]
             ELSE [t EXCEPT ![pid].status = status,
                            ![pid].returncode = rc,
                            ![pid].ended_at = Some(now)]
        ELSE t

\* Variant: an UPDATE that also resets the log paths of the row.
update_run_status_resetsPaths(table, pid, status, rc, now) ==
    LET t == init_db(table, now)
    IN  IF pid \in DOMAIN t
        THEN [t EXCEPT ![pid].status = status,
                       ![pid].returncode = rc,
                       ![pid].ended_at = Some(now),
                       ![pid].stdout_path = "",
                       ![pid].stderr_path = ""]
        ELSE t

\* update_run_status: init_db, then one UPDATE ... WHERE pid = ?; ended_at
\* defaults to now.
update_run_status(table, pid, status, rc, now) ==
    LET t == init_db(table, now)
    IN  IF pid \in DOMAIN t
        THEN [t EXCEPT ![pid].status = status,
                       ![pid].returncode = rc,
                       ![pid].ended_at = Some(now)]
        ELSE t

\* _row_to_dict: the columns, pid included, and extra_env parsed from
\* env_json, None when env_json is NULL or empty (the text of a JSON object
\* is never empty).
row_to_dict(pid, row) ==
    [pid |-> pid,
     command |-> row.command,
     cwd |-> row.cwd,
     status |-> row.status,
     started_at |-> row.started_at,
     ended_at |-> row.ended_at,
     returncode |-> row.returncode,
     stdout_path |-> row.stdout_path,
     stderr_path |-> row.stderr_path,
     env_json |-> row.env_json,
     extra_env |-> IF row.env_json # None
                   THEN Some(json_loads(row.env_json[1])) ELSE None]

\* get_run: init_db, then the row of pid as a dictionary, or None.
get_run_from(table, pid, now) ==
    LET t == init_db(table, now)
    IN  IF pid \in DOMAIN t THEN Some(row_to_dict(pid, t[pid])) ELSE None

get_run(pid) == get_run_from(runs, pid, clock)

\* The orders in which the pids of S can be listed.
Orders(S) ==
    {f \in [1..Cardinality(S) -> S] :
       \A i, j \in 1..Cardinality(S) : i # j => f[i] # f[j]}

\* Variant: the query without its WHERE clause.
list_runs_ignoresActiveOnly(table, active_only, now) ==
    LET t == init_db(table, now)
        sorted == {f \in Orders(DOMAIN t) :
                     \A i, j \in DOMAIN f :
                        i < j => t[f[i]].started_at[1] >= t[f[j]].started_at[1]}
    IN  {[i \in DOMAIN f |-> row_to_dict(f[i], t[f[i]])] : f \in sorted}

\* list_runs: init_db, then SELECT ... ORDER BY started_at DESC, restricted
\* to status = 'running' when active_only.  The results the query can give:
\* SQL leaves the order of rows with equal started_at open.
list_runs(table, active_only, now) ==
    LET t == init_db(table, now)
        sel == {p \in DOMAIN t : ~active_only \/ t[p].status = "running"}
        sorted == {f \in Orders(sel) :
                     \A i, j \in DOMAIN f :
                        i < j => t[f[i]].started_at[1] >= t[f[j]].started_at[1]}
    IN  {[i \in DOMAIN f |-> row_to_dict(f[i], t[f[i]])] : f \in sorted}

\* What a registry call of the supervisor leaves in the table: the table
\* the call computes or, when the database cannot be written, the table as
\* it was; sqlite3 then raises out of init_db or out of the statement.
RegistryWrite(table) == IF dbdown THEN runs ELSE table

\* ---------------------------------------------- a client of run_store
\* Arguments of add_run and update_run_status as the tests and the
\* supervisor pass them.
StoreArgs ==
    {[command |-> "echo hi", cwd |-> Some("/tmp"),
      stdout_path |-> Some("/tmp/out.log"), stderr_path |-> Some("/tmp/err.log")],
     [command |-> "sleep 5", cwd |-> None,
      stdout_path |-> Some("b.out.log"), stderr_path |-> None]}
StartedAtInputs == {None, Some(EmptyText)}
StatusInputs == {"running", "finished", "terminated", "killed"}
ReturncodeInputs == {None, Some(0)}

\* The variables of the supervisor, which a direct registry call leaves alone.
supVars == <<procVars, mapVars, tailer, lastOf, stopped, tlog, handles, start,
             watch, wlog, term, ioVars>>

RowBefore(pid) == IF pid \in DOMAIN runs THEN Some(runs[pid]) ELSE None

call_add_run(pid) ==
    /\ calls < MaxCalls
    /\ \E a \in StoreArgs, extra_env \in EnvInputs, started_at \in StartedAtInputs :
         /\ runs' = add_run(runs, pid, a.command, a.cwd, a.stdout_path,
                            a.stderr_path, extra_env, started_at, clock)
         /\ last' = [op |-> "add_run", pid |-> pid, result |-> None,
                     before |-> RowBefore(pid),
                     args |-> [command |-> a.command, cwd |-> a.cwd,
                               stdout_path |-> a.stdout_path,
                               stderr_path |-> a.stderr_path,
                               extra_env |-> extra_env,
                               started_at |-> started_at]]
    /\ owner' = Put(owner, pid, calls + 1)
    /\ calls' = calls + 1
    /\ UNCHANGED <<clock, supVars>>

call_update_run_status(pid) ==
    /\ calls < MaxCalls
    /\ \E status \in StatusInputs, rc \in ReturncodeInputs :
         /\ runs' = update_run_status(runs, pid, status, rc, clock)
         /\ last' = [op |-> "update_run_status", pid |-> pid, result |-> None,
                     before |-> RowBefore(pid),
                     args |-> [status |-> status, returncode |-> rc]]
    /\ calls' = calls + 1
    /\ UNCHANGED <<clock, owner, supVars>>

call_get_run(pid) ==
    /\ calls < MaxCalls
    /\ runs' = init_db(runs, clock)
    /\ last' = [op |-> "get_run", pid |-> pid,
                result |-> get_run_from(runs, pid, clock), args |-> <<>>,
                before |-> RowBefore(pid)]
    /\ calls' = calls + 1
    /\ UNCHANGED <<clock, owner, supVars>>

call_list_runs ==
    /\ calls < MaxCalls
    /\ \E active_only \in BOOLEAN :
       \E res \in list_runs(runs, active_only, clock) :
         last' = [op |-> "list_runs", pid |-> 0, result |-> res,
                  before |-> None,
                  args |-> [active_only |-> active_only]]
    /\ runs' = init_db(runs, clock)
    /\ calls' = calls + 1
    /\ UNCHANGED <<clock, owner, supVars>>

\* ------------------------------------------------------ operating system
\* The process, alive or not yet reaped, that holds a pid.
Occupant(pid) == {r \in Runs : pidOf[r] = pid /\ os[r] \in {"alive", "zombie"}}

\* The pids the operating system may hand out: held by no process.
FreePids == {p \in Pids : Occupant(p) = {} /\ foreign[p] = "none"}

\* os.killpg(pid, s) when a process group of another program holds the pid.
Strike(pid) ==
    IF foreign[pid] = "alive" THEN [foreign EXCEPT ![pid] = "signalled"]
    ELSE foreign

\* Another program starts a process group; the operating system gives it a
\* free pid.
foreign_spawn(pid) ==
    /\ pid \in FreePids
    /\ foreign' = [foreign EXCEPT ![pid] = "alive"]
    /\ UNCHANGED <<storeVars, att, logs, central, dbdown>>
    /\ UNCHANGED <<clock, procVars, mapVars, tailer, regVars, handles, start,
                   watch, wlog, term>>

\* That process group ends and its pid is free again.
foreign_exit(pid) ==
    /\ foreign[pid] = "alive"
    /\ foreign' = [foreign EXCEPT ![pid] = "none"]
    /\ UNCHANGED <<storeVars, att, logs, central, dbdown>>
    /\ UNCHANGED <<clock, procVars, mapVars, tailer, regVars, handles, start,
                   watch, wlog, term>>

Stronger(old, new) == IF old = SIGKILL \/ new = SIGKILL THEN SIGKILL ELSE new

\* os.killpg(pid, s) when the group exists: the signal reaches the live holder.
Deliver(pid, s) ==
    [r \in Runs |-> IF r \in Occupant(pid) /\ os[r] = "alive"
                    THEN Stronger(sig[r], s) ELSE sig[r]]

ExitCodes(r) ==
    IF sig[r] = SIGKILL THEN {-SIGKILL}
    ELSE IF sig[r] = SIGTERM THEN {-SIGTERM} \cup OwnExitCodes
    ELSE OwnExitCodes

\* The child exits: by itself, on SIGTERM, or on SIGKILL.
ProcExit(r) ==
    /\ os[r] = "alive"
    /\ \E c \in ExitCodes(r) :
         /\ os' = [os EXCEPT ![r] = "zombie"]
         /\ osRc' = [osRc EXCEPT ![r] = c]
    /\ UNCHANGED <<storeVars, ioVars>>
    /\ UNCHANGED <<clock, nruns, pidOf, sig, returncode, mapVars, tailer,
                   regVars, handles, start, watch, wlog, term>>

\* Popen.poll(): the stored returncode; otherwise, unless another thread is
\* inside wait() holding the waitpid lock, a non-blocking waitpid that reaps.
CanReap(r) == returncode[r] = None /\ watch[r] # "waiting" /\ os[r] = "zombie"
poll(r) == IF CanReap(r) THEN Some(osRc[r]) ELSE returncode[r]
osAfterPoll(r) == IF CanReap(r) THEN [os EXCEPT ![r] = "reaped"] ELSE os
rcAfterPoll(r) == [returncode EXCEPT ![r] = poll(r)]

Tick ==
    /\ clock < MaxClock
    /\ clock' = clock + 1
    /\ UNCHANGED <<storeVars, ioVars>>
    /\ UNCHANGED <<procVars, mapVars, tailer, regVars, handles, start, watch,
                   wlog, term>>

\* ------------------------------------------------------ start_subprocess
\* Variant: the spawn error leaves both log files open.
SpawnFailed_handlesLeftOpen ==
    /\ start' = [StartIdle EXCEPT !.res = "error"]
    /\ handles' = 2
    /\ term' = TermIdle
    /\ UNCHANGED <<storeVars, ioVars>>
    /\ UNCHANGED <<clock, procVars, mapVars, tailer, regVars, watch, wlog>>

\* Lines 721-723: Popen raised; the with block closes both files, the
\* exception propagates to the caller.
SpawnFailed ==
    /\ start' = [StartIdle EXCEPT !.res = "error"]
    /\ handles' = (handles + 2) - 2
    /\ term' = TermIdle
    /\ UNCHANGED <<storeVars, ioVars>>
    /\ UNCHANGED <<clock, procVars, mapVars, tailer, regVars, watch, wlog>>

\* The arguments of the start_subprocess call that creates run r: cmd joined
\* by line 755, and the log prefix.
Joined(r) == "sleep " \o ToString(r)
LogPrefix(r) == "run" \o ToString(r)

\* Lines 696-707: the paths the log files are opened under, which are the
\* values of DASHBOARD_CHILD_LOG_STDOUT and DASHBOARD_CHILD_LOG_STDERR in the
\* child's environment.
ChildLogEnv(r) ==
    [DASHBOARD_CHILD_LOG_STDOUT |-> LogPrefix(r) \o ".out.log",
     DASHBOARD_CHILD_LOG_STDERR |-> LogPrefix(r) \o ".err.log"]

\* Lines 727-738: the log files of run r after the rename that adds the pid.
LogPaths(r) ==
    [stdout |-> LogPrefix(r) \o "_pid_" \o ToString(pidOf[r]) \o ".out.log",
     stderr |-> LogPrefix(r) \o "_pid_" \o ToString(pidOf[r]) \o ".err.log"]

\* Lines 712-748: Popen succeeded; the child runs in a new session under a
\* pid no live or unreaped process holds; the parent's handles are closed.
SpawnOk(extra_env) ==
    /\ nruns < MaxRuns
    /\ \E p \in FreePids :
         LET r == nruns + 1 IN
         /\ nruns' = r
         /\ pidOf' = [pidOf EXCEPT ![r] = p]
         /\ os' = [os EXCEPT ![r] = "alive"]
         /\ start' = [StartIdle EXCEPT !.pc = "spawned", !.run = r,
                                       !.env = extra_env,
                                       !.child_env = Some(ChildLogEnv(r))]
    /\ handles' = (handles + 2) - 2
    /\ term' = TermIdle
    /\ UNCHANGED <<storeVars, ioVars>>
    /\ UNCHANGED <<clock, osRc, sig, returncode, mapVars, tailer, regVars,
                   watch, wlog>>

\* Lines 695-723: the two log files are opened inside a with block and the
\* child is spawned.
start_subprocess_spawn(extra_env) ==
    /\ UiIdle
    /\ (SpawnOk(extra_env) \/ SpawnFailed)

\* Variant: an exception of add_run leaves start_subprocess.
StartReturns_raises(r, raised) ==
    IF raised
    THEN /\ watch' = watch
         /\ start' = [StartIdle EXCEPT !.res = "error"]
    ELSE /\ watch' = [watch EXCEPT ![r] = "waiting"]
         /\ start' = [start EXCEPT !.pc = "idle", !.res = "ok",
                                   !.out = Some([pid |-> pidOf[r],
                                                 stdout_path |-> LogPaths(r).stdout,
                                                 stderr_path |-> LogPaths(r).stderr,
                                                 started_at |-> clock])]

\* Lines 758-784: an exception of add_run is logged and dropped; the
\* watcher thread is started and the handle is returned either way.
StartReturns(r, raised) ==
    /\ watch' = [watch EXCEPT ![r] = "waiting"]
    /\ start' = [start EXCEPT !.pc = "idle", !.res = "ok",
                              !.out = Some([pid |-> pidOf[r],
                                            stdout_path |-> LogPaths(r).stdout,
                                            stderr_path |-> LogPaths(r).stderr,
                                            started_at |-> clock])]

\* Lines 750-784: the process table and the log-path map get the pid, the
\* registry gets the row, the watcher thread is started and the handle is
\* returned.
start_subprocess_record ==
    /\ start.pc = "spawned"
    /\ LET r == start.run IN
       /\ ACTIVE_PROCS' = Put(ACTIVE_PROCS, pidOf[r], r)
       /\ ACTIVE_LOG_PATHS' = Put(ACTIVE_LOG_PATHS, pidOf[r], LogPaths(r))
       /\ runs' = RegistryWrite(add_run(runs, pidOf[r], Joined(r), None,
                          Some(LogPaths(r).stdout), Some(LogPaths(r).stderr),
                          start.env, None, clock))
       /\ owner' = IF dbdown THEN owner ELSE Put(owner, pidOf[r], r)
       /\ StartReturns(r, dbdown)
    /\ UNCHANGED <<storeVars, ioVars>>
    /\ UNCHANGED <<clock, procVars, ACTIVE_TAILERS, tailer, lastOf, stopped, tlog,
                   handles, wlog, term>>

\* -------------------------------------------------------- _watch_process
\* Line 766: proc.wait() returns once the child has exited, reaping it.
watch_process_wait(r) ==
    /\ watch[r] = "waiting"
    /\ os[r] = "zombie" \/ returncode[r] # None
    /\ os' = IF os[r] = "zombie" THEN [os EXCEPT ![r] = "reaped"] ELSE os
    /\ returncode' = IF returncode[r] = None
                     THEN [returncode EXCEPT ![r] = Some(osRc[r])]
                     ELSE returncode
    /\ watch' = [watch EXCEPT ![r] = "update"]
    /\ UNCHANGED <<storeVars, ioVars>>
    /\ UNCHANGED <<clock, nruns, pidOf, osRc, sig, mapVars, tailer, regVars,
                   handles, start, wlog, term>>

\* Variant: the watcher reports success whatever the child returned.
WatcherWrite_alwaysZero(r) == [status |-> "finished", returncode |-> Some(0)]

\* The status and return code the watcher writes.
WatcherWrite(r) == [status |-> "finished", returncode |-> returncode[r]]

\* Line 768.
watch_process_update(r) ==
    /\ watch[r] = "update"
    /\ LET w == WatcherWrite(r) IN
       /\ runs' = RegistryWrite(update_run_status(runs, pidOf[r], w.status,
                                                  w.returncode, clock))
       /\ wlog' = IF dbdown THEN wlog ELSE [wlog EXCEPT ![r] = Append(@, w)]
       /\ lastOf' = IF dbdown THEN lastOf
                    ELSE [lastOf EXCEPT ![r] =
                            Some([status |-> w.status, returncode |-> w.returncode,
                                  ended_at |-> Some(clock)])]
    /\ watch' = [watch EXCEPT ![r] = "done"]
    /\ UNCHANGED <<storeVars, ioVars>>
    /\ UNCHANGED <<clock, procVars, mapVars, tailer, owner, stopped, tlog, handles,
                   start, term>>

\* ------------------------------------------------------------ get_status
\* Variant: an unknown pid is answered from the registry.
get_status_result_fromRegistry(pid) ==
    LET p == Get(ACTIVE_PROCS, pid) IN
    IF p = NoRun
    THEN [known |-> pid \in DOMAIN runs,
          running |-> pid \in DOMAIN runs /\ runs[pid].status = "running",
          returncode |-> None]
    ELSE [known |-> TRUE, running |-> (poll(p) = None), returncode |-> poll(p)]

\* Variant: the answer for a known pid carries no return code.
get_status_result_noReturncode(pid) ==
    LET p == Get(ACTIVE_PROCS, pid) IN
    IF p = NoRun
    THEN [known |-> FALSE, running |-> FALSE, returncode |-> None]
    ELSE [known |-> TRUE, running |-> (poll(p) = None), returncode |-> None]

\* Lines 787-793: what get_status(pid) returns in the current state.
get_status_result(pid) ==
    LET p == Get(ACTIVE_PROCS, pid) IN
    IF p = NoRun
    THEN [known |-> FALSE, running |-> FALSE, returncode |-> None]
    ELSE [known |-> TRUE, running |-> (poll(p) = None), returncode |-> poll(p)]

\* The call itself: for a known pid p.poll() may reap the child; for an
\* unknown pid lines 788-790 return at once.
get_status(pid) ==
    /\ UiIdle
    /\ IF pid \in DOMAIN ACTIVE_PROCS
       THEN /\ os' = osAfterPoll(ACTIVE_PROCS[pid])
            /\ returncode' = rcAfterPoll(ACTIVE_PROCS[pid])
       ELSE UNCHANGED <<os, returncode>>
    /\ UNCHANGED <<storeVars, ioVars>>
    /\ UNCHANGED <<clock, nruns, pidOf, osRc, sig, mapVars, tailer, regVars,
                   handles, start, watch, wlog, term>>

\* ----------------------------------------------------- terminate_process
\* Variant: the teardown leaves the pid in the process table.
Teardown_keepsProc(pid) ==
    /\ ACTIVE_PROCS' = ACTIVE_PROCS
    /\ ACTIVE_LOG_PATHS' = Pop(ACTIVE_LOG_PATHS, pid)
    /\ ACTIVE_TAILERS' = Pop(ACTIVE_TAILERS, pid)
    /\ tailer' = IF pid \in DOMAIN ACTIVE_TAILERS
                 THEN [tailer EXCEPT ![ACTIVE_TAILERS[pid]].stop = TRUE]
                 ELSE tailer

\* Variant: the no-such-process path answers False.
NoSuchProcess_returnsFalse(pid, call) ==
    /\ ACTIVE_PROCS' = Pop(ACTIVE_PROCS, pid)
    /\ term' = [call EXCEPT !.pc = "idle", !.ret = "False"]
    /\ stopped' = stopped
    /\ UNCHANGED <<ACTIVE_LOG_PATHS, ACTIVE_TAILERS, tailer, sig>>

\* The teardown shared by both paths that write a status (lines 820-828 and
\* 846-853): the pid leaves the three dictionaries and the stop event of its
\* tailer, if any, is set.
Teardown(pid) ==
    /\ ACTIVE_PROCS' = Pop(ACTIVE_PROCS, pid)
    /\ ACTIVE_LOG_PATHS' = Pop(ACTIVE_LOG_PATHS, pid)
    /\ ACTIVE_TAILERS' = Pop(ACTIVE_TAILERS, pid)
    /\ tailer' = IF pid \in DOMAIN ACTIVE_TAILERS
                 THEN [tailer EXCEPT ![ACTIVE_TAILERS[pid]].stop = TRUE]
                 ELSE tailer

\* Lines 805-807: the group does not exist; only the process table entry is
\* dropped and the call returns True.
NoSuchProcess(pid, call) ==
    /\ ACTIVE_PROCS' = Pop(ACTIVE_PROCS, pid)
    /\ term' = [call EXCEPT !.pc = "idle", !.ret = "True"]
    /\ stopped' = stopped \cup {call.p}
    /\ UNCHANGED <<ACTIVE_LOG_PATHS, ACTIVE_TAILERS, tailer, sig>>

\* Lines 799-814: the lookup, then SIGTERM to the process group of p.pid.
\* An unknown pid returns False at once.  killpg raises ProcessLookupError
\* when no process holds the pid; another OSError falls back to
\* p.terminate(), whose own error is swallowed.
terminate_process_signal(pid) ==
    /\ UiIdle
    /\ \E force_after \in 0..MaxForceAfter :
         IF pid \notin DOMAIN ACTIVE_PROCS
         THEN /\ term' = [TermIdle EXCEPT !.pid = pid, !.ret = "False"]
              /\ UNCHANGED <<mapVars, tailer, sig, stopped, foreign>>
         ELSE LET r == ACTIVE_PROCS[pid]
                  call == [TermIdle EXCEPT !.pid = pid, !.p = r,
                                           !.rem = Max(1, force_after),
                                           !.sent = <<SIGTERM>>,
                                           !.gone = (os[r] # "alive"),
                                           !.active =
                                              /\ pid \in DOMAIN runs
                                              /\ owner[pid] = r
                                              /\ runs[pid].status = "running"]
              IN  IF pidOf[r] \in FreePids
                  THEN /\ NoSuchProcess(pid, call)
                       /\ foreign' = foreign
                  ELSE /\ \E delivered \in BOOLEAN :
                            /\ sig' = IF delivered
                                      THEN Deliver(pidOf[r], SIGTERM) ELSE sig
                            /\ foreign' = IF delivered
                                          THEN Strike(pidOf[r]) ELSE foreign
                       /\ term' = [call EXCEPT !.pc = "poll"]
                       /\ UNCHANGED <<mapVars, tailer, stopped>>
    /\ start' = StartIdle
    /\ UNCHANGED <<storeVars, att, logs, central, dbdown>>
    /\ UNCHANGED <<clock, nruns, pidOf, os, osRc, returncode, runs, owner,
                   lastOf, tlog, handles, watch, wlog>>

\* Lines 818-836: one round of the polling loop.  An exit seen by poll()
\* tears the run down; otherwise time.sleep(0.1) lasts at least one
\* interval and the loop ends when the deadline has passed.
terminate_process_poll ==
    /\ term.pc = "poll"
    /\ LET r == term.p IN
       /\ os' = osAfterPoll(r)
       /\ returncode' = rcAfterPoll(r)
       /\ IF poll(r) # None
          THEN /\ Teardown(term.pid)
               /\ term' = [term EXCEPT !.pc = "update_terminated"]
          ELSE /\ \E left \in 0..(term.rem - 1) :
                    term' = [term EXCEPT !.rem = left,
                                !.pc = IF left > 0 THEN "poll" ELSE "sigkill"]
               /\ UNCHANGED <<mapVars, tailer>>
    /\ UNCHANGED <<storeVars, ioVars>>
    /\ UNCHANGED <<clock, nruns, pidOf, osRc, sig, regVars, handles, start,
                   watch, wlog>>

\* Lines 839-853: SIGKILL to the group; any error falls back to p.kill(),
\* whose own error is swallowed.  Then the teardown.
terminate_process_sigkill ==
    /\ term.pc = "sigkill"
    /\ LET r == term.p IN
       /\ \E delivered \in BOOLEAN :
            /\ sig' = IF delivered THEN Deliver(pidOf[r], SIGKILL) ELSE sig
            /\ foreign' = IF delivered THEN Strike(pidOf[r]) ELSE foreign
       /\ term' = [term EXCEPT !.pc = "update_killed",
                               !.sent = Append(@, SIGKILL),
                               !.late = (returncode[r] # None)]
    /\ Teardown(term.pid)
    /\ UNCHANGED <<storeVars, att, logs, central, dbdown>>
    /\ UNCHANGED <<clock, nruns, pidOf, os, osRc, returncode, regVars,
                   handles, start, watch, wlog>>

\* The status and return code a terminate_process call writes: line 831
\* after an exit seen by poll, line 855 after the kill.
TerminateWrite ==
    IF term.pc = "update_terminated"
    THEN [status |-> "terminated", returncode |-> returncode[term.p]]
    ELSE [status |-> "killed", returncode |-> None]

\* Lines 829-835 and 854-859: the registry write, then return True.
terminate_process_update ==
    /\ term.pc \in {"update_terminated", "update_killed"}
    /\ LET w == TerminateWrite IN
       /\ runs' = RegistryWrite(update_run_status(runs, term.pid, w.status,
                                                  w.returncode, clock))
       /\ lastOf' = IF dbdown THEN lastOf
                    ELSE [lastOf EXCEPT ![term.p] =
                            Some([status |-> w.status, returncode |-> w.returncode,
                                  ended_at |-> Some(clock)])]
       /\ term' = [term EXCEPT !.pc = "idle", !.ret = "True",
                               !.wrote = IF dbdown THEN "failed" ELSE w.status]
       /\ stopped' = stopped \cup {term.p}
       /\ tlog' = IF dbdown THEN tlog ELSE [tlog EXCEPT ![term.p] = Append(@, w)]
    /\ UNCHANGED <<storeVars, ioVars>>
    /\ UNCHANGED <<clock, procVars, mapVars, tailer, owner, handles, start,
                   watch, wlog>>

\* ----------------------------------------------------------- auto attach
\* A control object of ACTIVE_TAILERS with its thread: the pid and paths the
\* loop was started with, the stop event, the read offsets of the loop.
NoTailer == [pid |-> 0, stop |-> FALSE, state |-> "unused", run |-> NoRun,
             pos |-> [s \in Streams |-> 0]]

\* An enable_auto_attach call of a session: its position, argument, result.
AttIdle == [pc |-> "idle", pid |-> 0, ret |-> "none"]

\* The bytes of a log file: an ASCII character is one byte, a character
\* outside ASCII is a lead byte followed by a continuation byte.
Ascii == "a"
Lead == "L"
Cont == "C"
Chars == {<<Ascii>>, <<Lead, Cont>>}

\* The tail of a sequence from index i on.
From(q, i) == SubSeq(q, i, Len(q))

\* Lines 922-925 and 929-932: open(path, "r", encoding="utf-8",
\* errors="ignore"), seek(pos), read().  The text read is the decoding of
\* the bytes after pos: a lead byte with its continuation byte is one
\* character, a byte that does not decode is dropped.
RECURSIVE Decode(_)
Decode(bytes) ==
    IF bytes = <<>> THEN <<>>
    ELSE IF bytes[1] = Lead
    THEN IF Len(bytes) >= 2 /\ bytes[2] = Cont
         THEN <<"LC">> \o Decode(From(bytes, 3))
         ELSE Decode(From(bytes, 2))
    ELSE IF bytes[1] = Cont
    THEN Decode(From(bytes, 2))
    ELSE <<bytes[1]>> \o Decode(From(bytes, 2))

ReadFrom(file, pos) == Decode(From(file, pos + 1))

\* Lines 926-928 and 933-935: the offset advances by len(data), the number
\* of characters read, when data is not empty.
NextPos(file, pos) == pos + Len(ReadFrom(file, pos))

\* Lines 899-915 and 963-965: the control object and the loop's first
\* lines, which look up the paths of the pid and take the sizes of the two
\* files as the offsets to read from.
NewTailer(pid) ==
    LET r == ACTIVE_PROCS[pid]
    IN  [pid |-> pid, stop |-> FALSE, state |-> "loop", run |-> r,
         pos |-> [s \in Streams |-> Len(logs[r][s])]]

\* Lines 957-972, called by one session at a time.
enable_auto_attach(pid) ==
    /\ UiIdle
    /\ IF pid \in DOMAIN ACTIVE_TAILERS
       THEN UNCHANGED <<ACTIVE_TAILERS, tailer>>
       ELSE IF pid \notin DOMAIN ACTIVE_PROCS \/ pid \notin DOMAIN ACTIVE_LOG_PATHS
       THEN UNCHANGED <<ACTIVE_TAILERS, tailer>>
       ELSE \E t \in TailerIds :
              /\ tailer[t].state = "unused"
              /\ \A u \in 1..(t - 1) : tailer[u].state # "unused"
              /\ tailer' = [tailer EXCEPT ![t] = NewTailer(pid)]
              /\ ACTIVE_TAILERS' = Put(ACTIVE_TAILERS, pid, t)
    /\ UNCHANGED <<storeVars, ioVars>>
    /\ UNCHANGED <<clock, procVars, ACTIVE_PROCS, ACTIVE_LOG_PATHS, regVars,
                   handles, start, watch, wlog, term>>

\* Lines 975-987.
disable_auto_attach(pid) ==
    /\ UiIdle
    /\ tailer' = IF pid \in DOMAIN ACTIVE_TAILERS
                 THEN [tailer EXCEPT ![ACTIVE_TAILERS[pid]].stop = TRUE]
                 ELSE tailer
    /\ UNCHANGED <<storeVars, ioVars>>
    /\ UNCHANGED <<clock, procVars, mapVars, regVars, handles, start, watch,
                   wlog, term>>

\* Lines 917-954: one iteration of the loop.  It leaves the loop when the
\* stop event is set, the pid has left the process table or the process has
\* exited, and then drops the pid's entry from the tailer map.  Otherwise
\* it reads what is new in the two files and forwards it when there is any.
LoopExit(t) ==
    /\ tailer' = [tailer EXCEPT ![t].state = "exited"]
    /\ ACTIVE_TAILERS' = Pop(ACTIVE_TAILERS, tailer[t].pid)
    /\ UNCHANGED <<central, foreign>>

\* The file of stream s the loop of t reads; a loop that found no paths
\* reads nothing.
FileOf(t, s) == IF tailer[t].run = NoRun THEN <<>> ELSE logs[tailer[t].run][s]

LoopRead(t) ==
    LET data == [s \in Streams |-> ReadFrom(FileOf(t, s), tailer[t].pos[s])]
    IN  /\ tailer' = [tailer EXCEPT ![t].pos =
                         [s \in Streams |-> NextPos(FileOf(t, s), tailer[t].pos[s])]]
        /\ central' = IF \E s \in Streams : data[s] # <<>>
                      THEN Append(central, [tailer |-> t, pid |-> tailer[t].pid,
                                            data |-> data])
                      ELSE central
        /\ UNCHANGED ACTIVE_TAILERS

tail_attach_loop(t) ==
    /\ tailer[t].state = "loop"
    /\ LET pid == tailer[t].pid
           pcur == Get(ACTIVE_PROCS, pid)
       IN  IF tailer[t].stop \/ pcur = NoRun
           THEN /\ LoopExit(t)
                /\ UNCHANGED <<os, returncode>>
           ELSE /\ os' = osAfterPoll(pcur)
                /\ returncode' = rcAfterPoll(pcur)
                /\ IF poll(pcur) # None THEN LoopExit(t) ELSE LoopRead(t)
    /\ UNCHANGED <<storeVars, att, logs, dbdown, foreign>>
    /\ UNCHANGED <<clock, nruns, pidOf, osRc, sig, ACTIVE_PROCS,
                   ACTIVE_LOG_PATHS, regVars, handles, start, watch, wlog,
                   term>>

\* enable_auto_attach called by sessions that run side by side: the two
\* membership tests of lines 959-962, and then lines 963-968.
enable_auto_attach_check(c, pid) ==
    /\ att[c].pc = "idle"
    /\ att' = [att EXCEPT ![c] =
                 IF pid \in DOMAIN ACTIVE_TAILERS
                 THEN [AttIdle EXCEPT !.pid = pid, !.ret = "True"]
                 ELSE IF pid \notin DOMAIN ACTIVE_PROCS
                         \/ pid \notin DOMAIN ACTIVE_LOG_PATHS
                 THEN [AttIdle EXCEPT !.pid = pid, !.ret = "False"]
                 ELSE [AttIdle EXCEPT !.pid = pid, !.pc = "checked"]]
    /\ UNCHANGED <<storeVars, logs, central, dbdown, foreign>>
    /\ UNCHANGED <<clock, procVars, mapVars, tailer, regVars, handles, start,
                   watch, wlog, term>>

\* Lines 963-968: a new stop event and thread are stored under the pid,
\* replacing what the map held, and the thread is started.  The loop's
\* first lines find no process or no paths when the pid has left the
\* dictionaries since the test, and the loop then ends at its first round.
enable_auto_attach_start(c) ==
    /\ att[c].pc = "checked"
    /\ LET pid == att[c].pid IN
       \E t \in LoopIds :
         /\ tailer[t].state = "unused"
         /\ \A u \in 1..(t - 1) : tailer[u].state # "unused"
         /\ tailer' = [tailer EXCEPT ![t] =
                         IF pid \in DOMAIN ACTIVE_PROCS
                         THEN NewTailer(pid)
                         ELSE [NoTailer EXCEPT !.pid = pid, !.state = "loop"]]
         /\ ACTIVE_TAILERS' = Put(ACTIVE_TAILERS, pid, t)
    /\ att' = [att EXCEPT ![c].pc = "idle", ![c].ret = "True"]
    /\ UNCHANGED <<storeVars, logs, central, dbdown, foreign>>
    /\ UNCHANGED <<clock, procVars, ACTIVE_PROCS, ACTIVE_LOG_PATHS, regVars,
                   handles, start, watch, wlog, term>>

\* The child of run r writes one character to one of its log files.
child_write(r) ==
    /\ os[r] = "alive"
    /\ \E s \in Streams, ch \in Chars :
         /\ Len(logs[r][s]) + Len(ch) <= MaxBytes
         /\ logs' = [logs EXCEPT ![r][s] = @ \o ch]
    /\ UNCHANGED <<storeVars, att, central, dbdown, foreign>>
    /\ UNCHANGED <<clock, procVars, mapVars, tailer, regVars, handles, start,
                   watch, wlog, term>>

\* ------------------------------------------------------- merge_log_tails
\* The lines of a log file by how they begin: a timestamp as
\* YYYY-MM-DD HH:MM:SS, as YYYY-MM-DDTHH:MM:SS or as YYYYMMDD-HHMMSS, digits
\* of that shape that name no date (month 13), or no timestamp at all; t is
\* the time the digits name.
LineKinds ==
    {[form |-> "iso", t |-> 2], [form |-> "isoT", t |-> 1],
     [form |-> "compact", t |-> 2], [form |-> "baddate", t |-> 1],
     [form |-> "plain", t |-> 0]}

\* A file as readlines() gives it: its lines, the last of which may lack
\* the newline; None when there is no path or no file.
LogFiles ==
    {None} \cup
    {Some([lines |-> l, complete |-> c]) :
        l \in UNION {[1..n -> LineKinds] : n \in 0..MaxFileLines},
        c \in BOOLEAN}

\* _extract_timestamp: the first pattern and fromisoformat or strptime, then
\* the second pattern and strptime; digits that name no date fail both.
extract_timestamp(line) ==
    IF line.form \in {"iso", "isoT"} THEN Some(line.t)
    ELSE IF line.form = "compact" THEN Some(line.t)
    ELSE None

\* datetime.max, the key of a line without a timestamp.
Sentinel == 9999

\* Lines 104-115: f.readlines()[-max_lines:], each line with its newline
\* when it has one.
LastLines(file, max_lines) ==
    IF file = None THEN <<>>
    ELSE LET l == file[1].lines
             n == Len(l)
             k == IF max_lines < n THEN max_lines ELSE n
         IN  [i \in 1..k |->
                [kind |-> l[n - k + i],
                 nl |-> (n - k + i < n) \/ file[1].complete]]

\* Lines 122-128: the entries (ts, tag, idx, line).
Entries(lines, tag) ==
    [i \in DOMAIN lines |->
       [ts |-> extract_timestamp(lines[i].kind), tag |-> tag, idx |-> i - 1,
        line |-> lines[i]]]

\* The order of the strings "ERR" and "OUT".
TagRank(tag) == IF tag = "ERR" THEN 1 ELSE 2

\* Variant: lines without a timestamp sort first.
SortKey_noneFirst(e) ==
    <<IF e.ts = None THEN 0 ELSE e.ts[1], TagRank(e.tag), e.idx>>

\* Line 134: the sort key (e[0] or sentinel, e[1], e[2]).
SortKey(e) ==
    <<IF e.ts = None THEN Sentinel ELSE e.ts[1], TagRank(e.tag), e.idx>>

\* Comparison of two keys as Python compares tuples.
KeyLess(a, b) ==
    \/ a[1] < b[1]
    \/ a[1] = b[1] /\ a[2] < b[2]
    \/ a[1] = b[1] /\ a[2] = b[2] /\ a[3] < b[3]

\* sorted(entries, key = ...), by insertion.
RECURSIVE Sorted(_)
Sorted(es) ==
    IF es = <<>> THEN <<>>
    ELSE LET rest == Sorted(Tail(es))
             e == Head(es)
             k == Cardinality({i \in DOMAIN rest :
                                 ~KeyLess(SortKey(e), SortKey(rest[i]))})
         IN  SubSeq(rest, 1, k) \o <<e>> \o SubSeq(rest, k + 1, Len(rest))

\* Variant: all of stdout, then all of stderr.
Interleave_concatenates(a, b) == a \o b

\* Lines 141-146: zip_longest with the fill value dropped.
RECURSIVE Interleave(_, _)
Interleave(a, b) ==
    IF a = <<>> /\ b = <<>> THEN <<>>
    ELSE (IF a # <<>> THEN <<Head(a)>> ELSE <<>>)
         \o (IF b # <<>> THEN <<Head(b)>> ELSE <<>>)
         \o Interleave(IF a # <<>> THEN Tail(a) ELSE <<>>,
                       IF b # <<>> THEN Tail(b) ELSE <<>>)

\* "".join(lines): the text, as the line bodies and the newlines between
\* them.
RECURSIVE Join(_)
Join(lines) ==
    IF lines = <<>> THEN <<>>
    ELSE <<[body |-> Head(lines).kind]>>
         \o (IF Head(lines).nl THEN <<[newline |-> TRUE]>> ELSE <<>>)
         \o Join(Tail(lines))

\* merge_log_tails: the entries in the order computed (sorted_entries of
\* line 134 or merged of lines 141-146) and the text returned.
merge_log_tails(out_file, err_file, max_lines) ==
    LET out_lines == LastLines(out_file, max_lines)
        err_lines == LastLines(err_file, max_lines)
        entries == Entries(out_lines, "OUT") \o Entries(err_lines, "ERR")
        ordered ==
          IF \E i \in DOMAIN entries : entries[i].ts # None
          THEN Sorted(entries)
          ELSE Interleave(Entries(out_lines, "OUT"), Entries(err_lines, "ERR"))
    IN  [entries |-> ordered,
         text |-> Join([i \in DOMAIN ordered |-> ordered[i].line])]

\* A log view of the dashboard calls merge_log_tails on two files.
call_merge_log_tails ==
    /\ calls < MaxMerges
    /\ \E out_file \in LogFiles, err_file \in LogFiles, max_lines \in 1..MaxLinesArg :
         last' = [op |-> "merge_log_tails", pid |-> 0, before |-> None,
                  args |-> [out_file |-> out_file, err_file |-> err_file,
                            max_lines |-> max_lines],
                  result |-> merge_log_tails(out_file, err_file, max_lines)]
    /\ calls' = calls + 1
    /\ UNCHANGED <<clock, runs, owner, supVars>>

\* ---------------------------------------------------------- specification
Init ==
    /\ clock = 0
    /\ nruns = 0
    /\ pidOf = [r \in Runs |-> 0]
    /\ os = [r \in Runs |-> "unborn"]
    /\ osRc = [r \in Runs |-> 0]
    /\ sig = [r \in Runs |-> NoSignal]
    /\ returncode = [r \in Runs |-> None]
    /\ ACTIVE_PROCS = <<>>
    /\ ACTIVE_LOG_PATHS = <<>>
    /\ ACTIVE_TAILERS = <<>>
    /\ tailer = [t \in LoopIds |-> NoTailer]
    /\ runs = <<>>
    /\ owner = <<>>
    /\ handles = 0
    /\ start = StartIdle
    /\ watch = [r \in Runs |-> "none"]
    /\ wlog = [r \in Runs |-> <<>>]
    /\ term = TermIdle
    /\ lastOf = [r \in Runs |-> None]
    /\ stopped = {}
    /\ tlog = [r \in Runs |-> <<>>]
    /\ calls = 0
    /\ last = NoCall
    /\ att = [c \in Sessions |-> AttIdle]
    /\ logs = [r \in Runs |-> [s \in Streams |-> <<>>]]
    /\ central = <<>>
    /\ dbdown = FALSE
    /\ foreign = [p \in Pids |-> "none"]

\* The supervisor: start, watcher, status and termination, with the clock.
Next ==
    \/ Tick
    \/ \E extra_env \in {TestEnv} : start_subprocess_spawn(extra_env)
    \/ start_subprocess_record
    \/ \E r \in Runs : ProcExit(r)
    \/ \E r \in Runs : watch_process_wait(r)
    \/ \E r \in Runs : watch_process_update(r)
    \/ \E pid \in Pids : get_status(pid)
    \/ \E pid \in Pids : terminate_process_signal(pid)
    \/ terminate_process_poll
    \/ terminate_process_sigkill
    \/ terminate_process_update

Spec == Init /\ [][Next]_vars

\* Scheduling: a call in progress runs on, a started thread runs on, and a
\* child that was sent SIGKILL dies.
Fairness ==
    /\ WF_vars(start_subprocess_record)
    /\ WF_vars(terminate_process_poll)
    /\ WF_vars(terminate_process_sigkill)
    /\ WF_vars(terminate_process_update)
    /\ \A r \in Runs : WF_vars(watch_process_wait(r))
    /\ \A r \in Runs : WF_vars(watch_process_update(r))
    /\ \A r \in Runs : WF_vars(sig[r] = SIGKILL /\ ProcExit(r))

FairSpec == Spec /\ Fairness

\* The supervisor with auto attach, within one clock second.
NextTail ==
    \/ \E extra_env \in {TestEnv} : start_subprocess_spawn(extra_env)
    \/ start_subprocess_record
    \/ \E r \in Runs : ProcExit(r)
    \/ \E r \in Runs : watch_process_wait(r)
    \/ \E r \in Runs : watch_process_update(r)
    \/ \E pid \in Pids : get_status(pid)
    \/ \E pid \in Pids : terminate_process_signal(pid)
    \/ terminate_process_poll
    \/ terminate_process_sigkill
    \/ terminate_process_update
    \/ \E pid \in Pids : enable_auto_attach(pid)
    \/ \E pid \in Pids : disable_auto_attach(pid)
    \/ \E t \in LoopIds : tail_attach_loop(t)

SpecTail == Init /\ [][NextTail]_vars

\* Scheduling with auto attach: a started tail loop runs on as well.
FairTail ==
    /\ SpecTail
    /\ Fairness
    /\ \A t \in LoopIds : WF_vars(tail_attach_loop(t))

\* A client that uses the registry alone, as tests/test_run_store.py does.
NextStore ==
    \/ Tick
    \/ \E pid \in Pids : call_add_run(pid)
    \/ \E pid \in Pids : call_update_run_status(pid)
    \/ \E pid \in Pids : call_get_run(pid)
    \/ call_list_runs

SpecStore == Init /\ [][NextStore]_vars

\* The log views of the dashboard.
NextMerge == call_merge_log_tails

SpecMerge == Init /\ [][NextMerge]_vars

\* The supervisor called with every kind of environment override, within
\* one clock second.
NextEnv ==
    \/ \E extra_env \in EnvInputs : start_subprocess_spawn(extra_env)
    \/ start_subprocess_record
    \/ \E r \in Runs : ProcExit(r)
    \/ \E r \in Runs : watch_process_wait(r)
    \/ \E r \in Runs : watch_process_update(r)
    \/ \E pid \in Pids : get_status(pid)
    \/ \E pid \in Pids : terminate_process_signal(pid)
    \/ terminate_process_poll
    \/ terminate_process_sigkill
    \/ terminate_process_update

SpecEnv == Init /\ [][NextEnv]_vars

\* Sessions that switch auto attach on and off side by side while one run
\* is started, writes its logs and is terminated.
NextAttach ==
    \/ \E extra_env \in {TestEnv} : nruns = 0 /\ start_subprocess_spawn(extra_env)
    \/ start_subprocess_record
    \/ \E r \in Runs : ProcExit(r)
    \/ \E r \in Runs : watch_process_wait(r)
    \/ \E r \in Runs : watch_process_update(r)
    \/ \E pid \in Pids : terminate_process_signal(pid)
    \/ terminate_process_poll
    \/ terminate_process_sigkill
    \/ terminate_process_update
    \/ \E c \in Sessions, pid \in Pids : enable_auto_attach_check(c, pid)
    \/ \E c \in Sessions : enable_auto_attach_start(c)
    \/ \E pid \in Pids : disable_auto_attach(pid)
    \/ \E t \in LoopIds : tail_attach_loop(t)

SpecAttach == Init /\ [][NextAttach]_vars

\* The registry database becomes unwritable (locked, read-only, disk full)
\* or writable again.
db_fault ==
    /\ dbdown' = ~dbdown
    /\ UNCHANGED <<storeVars, att, logs, central, foreign>>
    /\ UNCHANGED <<clock, procVars, mapVars, tailer, regVars, handles, start,
                   watch, wlog, term>>

\* The supervisor with one run over a registry that fails at times, within
\* one clock second.
NextFail ==
    \/ db_fault
    \/ \E extra_env \in {TestEnv} : nruns = 0 /\ start_subprocess_spawn(extra_env)
    \/ start_subprocess_record
    \/ \E r \in Runs : ProcExit(r)
    \/ \E r \in Runs : watch_process_wait(r)
    \/ \E r \in Runs : watch_process_update(r)
    \/ \E pid \in Pids : terminate_process_signal(pid)
    \/ terminate_process_poll
    \/ terminate_process_sigkill
    \/ terminate_process_update

SpecFail == Init /\ [][NextFail]_vars

\* The supervisor beside other programs whose processes take free pids.
NextReuse ==
    \/ \E pid \in Pids : foreign_spawn(pid)
    \/ \E pid \in Pids : foreign_exit(pid)
    \/ \E extra_env \in {TestEnv} : nruns = 0 /\ start_subprocess_spawn(extra_env)
    \/ start_subprocess_record
    \/ \E r \in Runs : ProcExit(r)
    \/ \E r \in Runs : watch_process_wait(r)
    \/ \E r \in Runs : watch_process_update(r)
    \/ \E pid \in Pids : terminate_process_signal(pid)
    \/ terminate_process_poll
    \/ terminate_process_sigkill
    \/ terminate_process_update

SpecReuse == Init /\ [][NextReuse]_vars

\* The controlling process ends and is started again.  The dictionaries of
\* lines 673-677 are empty after the import; the watcher and tail threads
\* (daemon threads, lines 775 and 964) and the calls in progress are gone.
\* The children run in sessions of their own (line 719) and live on; a
\* child that had exited and was not yet waited for is reaped by init.  The
\* registry file keeps its rows.
controller_restart ==
    /\ ACTIVE_PROCS' = <<>>
    /\ ACTIVE_LOG_PATHS' = <<>>
    /\ ACTIVE_TAILERS' = <<>>
    /\ tailer' = [t \in LoopIds |-> NoTailer]
    /\ watch' = [r \in Runs |-> IF watch[r] \in {"waiting", "update"}
                                THEN "lost" ELSE watch[r]]
    /\ os' = [r \in Runs |-> IF os[r] = "zombie" THEN "reaped" ELSE os[r]]
    /\ start' = StartIdle
    /\ term' = TermIdle
    /\ handles' = 0
    /\ att' = [c \in Sessions |-> AttIdle]
    /\ UNCHANGED <<storeVars, logs, central, dbdown, foreign>>
    /\ UNCHANGED <<clock, nruns, pidOf, osRc, sig, returncode, regVars, wlog>>

\* The supervisor with one run, and restarts of the controlling process.
NextRestart ==
    \/ controller_restart
    \/ Tick
    \/ \E extra_env \in {TestEnv} : nruns = 0 /\ start_subprocess_spawn(extra_env)
    \/ start_subprocess_record
    \/ \E r \in Runs : ProcExit(r)
    \/ \E r \in Runs : watch_process_wait(r)
    \/ \E r \in Runs : watch_process_update(r)
    \/ \E pid \in Pids : terminate_process_signal(pid)
    \/ terminate_process_poll
    \/ terminate_process_sigkill
    \/ terminate_process_update

SpecRestart == Init /\ [][NextRestart]_vars

FairRestart == SpecRestart /\ Fairness

\* One run that writes to its log files while a tail loop follows them.
NextRead ==
    \/ \E extra_env \in {TestEnv} : nruns = 0 /\ start_subprocess_spawn(extra_env)
    \/ start_subprocess_record
    \/ \E r \in Runs : child_write(r)
    \/ \E r \in Runs : ProcExit(r)
    \/ \E r \in Runs : watch_process_wait(r)
    \/ \E r \in Runs : watch_process_update(r)
    \/ \E pid \in Pids : enable_auto_attach(pid)
    \/ \E pid \in Pids : disable_auto_attach(pid)
    \/ \E t \in LoopIds : tail_attach_loop(t)

SpecRead == Init /\ [][NextRead]_vars

\* The threads of SpecRead keep running: the loop thread sleeps for its
\* interval and goes round again (line 948).
FairRead ==
    /\ SpecRead
    /\ Fairness
    /\ \A t \in LoopIds : WF_vars(tail_attach_loop(t))

\* ------------------------------------------------------------ properties
\* The registry row of run r, when the row under r's pid is still r's.
HasRow(r) == pidOf[r] \in DOMAIN runs /\ owner[pidOf[r]] = r
Row(r) == runs[pidOf[r]]

\* The last terminate_process call has returned.
Returned == term.pc = "idle" /\ term.ret # "none"

\* C1: once the row of a run has status finished, terminated or killed, no
\* later step changes that row's status to another value.
C1_TerminalStatusIsFinal ==
    [][\A pid \in DOMAIN runs :
         (/\ runs[pid].status \in TerminalStatuses
          /\ pid \in DOMAIN runs'
          /\ owner'[pid] = owner[pid])
         => runs'[pid].status = runs[pid].status]_vars

\* C2: after terminate_process(pid) has returned True for a run that was
\* running when it was called (its row said running and its child was
\* alive), and the run's watcher has finished, the row's status is
\* terminated or killed and its ended_at is set.
C2_TerminatedOrKilledAfterTerminate ==
    (/\ Returned
     /\ term.ret = "True"
     /\ term.active
     /\ ~term.gone
     /\ watch[term.p] = "done"
     /\ HasRow(term.p))
    => /\ Row(term.p).status \in {"terminated", "killed"}
       /\ Row(term.p).ended_at # None

\* A step in which a start_subprocess call ends with the spawn error.
StartFails == start' # start /\ start'.res = "error"

\* C3: a start_subprocess call that fails to spawn leaves the process table,
\* the log-path map, the tailer map and the registry as they were, starts no
\* watcher, creates no Popen object and leaves no log file handle open.
C3_SpawnFailureIsAtomic ==
    [][StartFails =>
         /\ UNCHANGED <<ACTIVE_PROCS, ACTIVE_LOG_PATHS, ACTIVE_TAILERS>>
         /\ UNCHANGED <<runs, watch, nruns>>
         /\ handles' = 0]_vars

\* A failed start with other runs tracked and recorded.
C3_Witness ==
    /\ start.res = "error"
    /\ DOMAIN ACTIVE_PROCS # {}
    /\ DOMAIN ACTIVE_TAILERS # {}
    /\ DOMAIN runs # {}

\* A step in which a terminate_process call returns.
TermReturns == term' # term /\ term'.pc = "idle" /\ term'.ret # "none"

\* C4: terminate_process(pid) returns False exactly when pid was not in the
\* process table when it was called; it then has sent no signal and has left
\* the three maps, the tailers and the registry as they were.
C4_FalseIffUnknownPid ==
    [][TermReturns =>
         /\ (term'.ret = "False") <=> (term'.p = NoRun)
         /\ (term'.p = NoRun) <=> (term.pc = "idle" /\ term'.pid \notin DOMAIN ACTIVE_PROCS)
         /\ term'.ret = "False" =>
              /\ term'.sent = <<>>
              /\ UNCHANGED <<ACTIVE_PROCS, ACTIVE_LOG_PATHS, ACTIVE_TAILERS>>
              /\ UNCHANGED <<tailer, runs, sig>>]_vars

\* terminate_process returned False for a pid that has a registry row, while
\* another pid is tracked.
C4_Witness ==
    /\ Returned
    /\ term.ret = "False"
    /\ term.pid \in DOMAIN runs
    /\ DOMAIN ACTIVE_PROCS # {}

\* The tail loops of pid that have not ended.
LiveLoops(pid) == {t \in TailerIds : tailer[t].pid = pid /\ tailer[t].state = "loop"}

\* C5: whenever terminate_process(pid) returns True it has written status
\* terminated or killed for pid and has torn the tail loop of pid down: the
\* pid has no entry in the tailer map and every loop of pid still running
\* has its stop event set.
C5_TrueImpliesStatusWrittenAndTailerDown ==
    [][(TermReturns /\ term'.ret = "True") =>
         /\ term'.wrote \in {"terminated", "killed"}
         /\ term'.pid \notin DOMAIN ACTIVE_TAILERS'
         /\ \A t \in TailerIds :
              (tailer'[t].pid = term'.pid /\ tailer'[t].state = "loop")
              => tailer'[t].stop]_vars

\* C6: a kill signal is sent only after a graceful attempt, only once the
\* deadline has passed, and only while the supervisor has not seen the
\* process exit (Popen.returncode is still unset).
C6_KillOnlyAfterDeadlineWithoutExit ==
    (Len(term.sent) > 0 /\ term.sent[Len(term.sent)] = SIGKILL)
    => /\ term.sent = <<SIGTERM, SIGKILL>>
       /\ term.rem = 0
       /\ ~term.late

C8_AlreadyExitedEndsFinishedOrTerminated ==
    (Returned /\ term.gone)
    => /\ term.ret = "True"
       /\ (watch[term.p] = "done" /\ HasRow(term.p))
          => Row(term.p).status \in {"finished", "terminated"}

Exited(r) == os[r] \in {"zombie", "reaped"}

\* C9: the watcher of a run writes at most once, only after the child has
\* exited, and what it writes is status finished with the exit code of the
\* child; every child that exits gets this write eventually.
C9_WatcherWritesFinishedOnce ==
    /\ [](\A r \in Runs :
            /\ Len(wlog[r]) <= 1
            /\ wlog[r] # <<>> =>
                 /\ Exited(r)
                 /\ wlog[r][1] = [status |-> "finished",
                                  returncode |-> Some(osRc[r])])
    /\ \A r \in Runs : Exited(r) ~> (Len(wlog[r]) = 1)

\* Both runs have been written by their watchers, one of them after it was
\* killed.
C9_Witness ==
    /\ \A r \in Runs : wlog[r] # <<>>
    /\ \E r \in Runs : wlog[r][1].returncode = Some(-SIGKILL)

\* Both the watcher and a terminate_process call have written for run r.
Raced(r) == wlog[r] # <<>> /\ tlog[r] # <<>>

Triple(row) ==
    [status |-> row.status, returncode |-> row.returncode,
     ended_at |-> row.ended_at]

\* No other run has had the pid of run r.
SolePid(r) == \A q \in Runs \ {r} : pidOf[q] # pidOf[r]

\* C10: when the watcher and terminate_process both write the row of a run,
\* the step that completes the second write leaves status, returncode and
\* ended_at equal to the triple that step wrote, with a terminal status; and
\* while no other run has had the pid the row keeps the last triple written.
C10_LastWriteWins ==
    /\ [][\A r \in Runs :
            (/\ wlog'[r] # wlog[r] \/ tlog'[r] # tlog[r]
             /\ wlog'[r] # <<>> /\ tlog'[r] # <<>>
             /\ pidOf[r] \in DOMAIN runs /\ owner[pidOf[r]] = r)
            => /\ Triple(runs'[pidOf[r]]) = lastOf'[r][1]
               /\ lastOf'[r][1].ended_at = Some(clock)
               /\ lastOf'[r][1].status \in TerminalStatuses
               /\ IF wlog'[r] # wlog[r]
                  THEN /\ lastOf'[r][1].status = wlog'[r][1].status
                       /\ lastOf'[r][1].returncode = wlog'[r][1].returncode
                  ELSE /\ lastOf'[r][1].status = tlog'[r][1].status
                       /\ lastOf'[r][1].returncode = tlog'[r][1].returncode]_vars
    /\ [](\A r \in Runs :
            (Raced(r) /\ HasRow(r) /\ SolePid(r))
            => /\ Triple(Row(r)) = lastOf[r][1]
               /\ Row(r).status \in TerminalStatuses)

\* The watcher wrote finished over the killed that terminate_process had
\* written for the same run.
C10_Witness ==
    \E r \in Runs :
        /\ Raced(r)
        /\ HasRow(r)
        /\ tlog[r][1].status = "killed"
        /\ Row(r).status = "finished"
        /\ Row(r).returncode = Some(-SIGKILL)

\* C11: for a pid that is not in the process table get_status(pid) answers
\* known = False, running = False, returncode = None, whatever the registry
\* holds for the pid, and the call changes no state.
C11_UnknownPidStatus ==
    /\ [](\A pid \in Pids :
            pid \notin DOMAIN ACTIVE_PROCS
            => get_status_result(pid) =
                 [known |-> FALSE, running |-> FALSE, returncode |-> None])
    /\ [][\A pid \in Pids :
            (get_status(pid) /\ pid \notin DOMAIN ACTIVE_PROCS)
            => UNCHANGED vars]_vars

\* A pid that left the process table while its registry row still says
\* running.
C11_Witness ==
    \E pid \in Pids :
        /\ pid \notin DOMAIN ACTIVE_PROCS
        /\ pid \in DOMAIN runs
        /\ runs[pid].status = "running"
        /\ UiIdle

\* C12: after start_subprocess has returned the handle of a run, the pid is
\* in the process table and in the log-path map, and get_run(pid) shows
\* status running as long as neither the watcher nor terminate_process has
\* written for the run, extra_env equal to the map that was passed, and the
\* log paths that were returned and stored in the log-path map.
C12_StartedRunIsRecorded ==
    (start.pc = "idle" /\ start.res = "ok")
    => LET r == start.run
           pid == pidOf[r]
           got == get_run(pid)
       IN  /\ pid \in DOMAIN ACTIVE_PROCS
           /\ ACTIVE_PROCS[pid] = r
           /\ pid \in DOMAIN ACTIVE_LOG_PATHS
           /\ got # None
           /\ (wlog[r] = <<>> /\ tlog[r] = <<>>) => got[1].status = "running"
           /\ got[1].extra_env = start.env
           /\ got[1].stdout_path = start.out[1].stdout_path
           /\ got[1].stderr_path = start.out[1].stderr_path
           /\ got[1].stdout_path = ACTIVE_LOG_PATHS[pid].stdout
           /\ got[1].stderr_path = ACTIVE_LOG_PATHS[pid].stderr

\* A step that is a direct call of the registry operation op.
Called(op) == calls' # calls /\ last'.op = op

\* C13: add_run with a map as extra_env, followed by get_run of the same
\* pid, returns a row whose extra_env equals that map, the empty map
\* included.
C13_ExtraEnvRoundTrip ==
    [][(Called("add_run") /\ last'.args.extra_env # None)
       => LET got == get_run_from(runs', last'.pid, clock')
          IN  /\ got # None
              /\ got[1].extra_env = last'.args.extra_env]_vars

\* The row lacks a start timestamp, which the next init_db fills in.
LacksStart(row) == row.started_at \in {None, Some(EmptyText)}

\* Row new is row old, but for a start timestamp filled in at time now.
SameButBackfill(old, new, now) ==
    /\ [new EXCEPT !.started_at = None] = [old EXCEPT !.started_at = None]
    /\ new.started_at = IF LacksStart(old) THEN Some(now) ELSE old.started_at

\* C14, as claimed: update_run_status for a pid without a row leaves the set
\* of rows and the contents of every row as they were.
C14_UpdateOfMissingPidChangesNothing ==
    [][(Called("update_run_status") /\ last'.before = None)
       => runs' = runs]_vars

\* C14, amended: update_run_status for a pid without a row creates no row
\* and leaves every row as it was, except that a row lacking a start
\* timestamp gets the current time as started_at.
C14_UpdateOfMissingPidCreatesNoRow ==
    [][(Called("update_run_status") /\ last'.before = None)
       => /\ DOMAIN runs' = DOMAIN runs
          /\ \A p \in DOMAIN runs : SameButBackfill(runs[p], runs'[p], clock)]_vars

\* update_run_status was called for a pid without a row while the table
\* held a row of another pid.
C14_Witness ==
    /\ last.op = "update_run_status"
    /\ last.before = None
    /\ last.pid \notin DOMAIN runs
    /\ DOMAIN runs # {}

\* The pids of a list_runs result.
PidsOf(res) == {res[i].pid : i \in DOMAIN res}

\* C15: list_runs(active_only = True) returns exactly the rows whose status
\* is running, list_runs(active_only = False) every row, each row once and
\* with its current columns.
C15_ListRunsSelection ==
    [][Called("list_runs")
       => LET res == last'.result
              want == {p \in DOMAIN runs' :
                         last'.args.active_only => runs'[p].status = "running"}
          IN  /\ PidsOf(res) = want
              /\ Len(res) = Cardinality(want)
              /\ \A i \in DOMAIN res :
                   res[i] = row_to_dict(res[i].pid, runs'[res[i].pid])]_vars

\* list_runs(active_only = True) returned the one running row of a table
\* that also holds a row with a terminal status.
C15_Witness ==
    /\ last.op = "list_runs"
    /\ last.args.active_only
    /\ Len(last.result) = 1
    /\ \E p \in DOMAIN runs : runs[p].status \in TerminalStatuses

\* C16: in a list_runs result a run that was started later stands before a
\* run that was started earlier, also when both were started within one
\* clock second and when a start timestamp was backfilled.
C16_ListRunsNewestFirst ==
    [][Called("list_runs")
       => LET res == last'.result
          IN  \A i, j \in DOMAIN res :
                i < j => owner'[res[i].pid] > owner'[res[j].pid]]_vars

\* C17: the registry holds one row per pid, and add_run for a pid replaces
\* whatever row the pid had by a row with status running, the new command,
\* cwd, paths and environment, and returncode and ended_at NULL.
C17_AddRunReplacesRow ==
    /\ [](\A res \in list_runs(runs, FALSE, clock) :
            /\ Len(res) = Cardinality(DOMAIN runs)
            /\ \A i, j \in DOMAIN res : res[i].pid = res[j].pid => i = j)
    /\ [][Called("add_run")
          => LET a == last'.args
                 pid == last'.pid
                 got == get_run_from(runs', pid, clock')[1]
             IN  /\ DOMAIN runs' = DOMAIN runs \cup {pid}
                 /\ got.status = "running"
                 /\ got.returncode = None
                 /\ got.ended_at = None
                 /\ got.command = a.command
                 /\ got.cwd = OrEmpty(a.cwd)
                 /\ got.stdout_path = OrEmpty(a.stdout_path)
                 /\ got.stderr_path = OrEmpty(a.stderr_path)
                 /\ got.extra_env = IF TruthyDict(a.extra_env)
                                    THEN a.extra_env ELSE None
                 /\ \A p \in DOMAIN runs \ {pid} :
                      SameButBackfill(runs[p], runs'[p], clock)]_vars

\* add_run replaced a row that had a terminal status, a return code and
\* another command.
C17_Witness ==
    /\ last.op = "add_run"
    /\ last.before # None
    /\ last.before[1].status \in TerminalStatuses
    /\ last.before[1].returncode # None
    /\ last.before[1].command # runs[last.pid].command
    /\ last.before[1].env_json # runs[last.pid].env_json

\* C18: ended_at and returncode of a run's row change only in the write
\* that moves the row from running to a terminal status; while the row is
\* the same run's and already terminal, no step changes either column.
C18_OutcomeSetOnlyOnLeavingRunning ==
    [][\A pid \in DOMAIN runs :
         (/\ pid \in DOMAIN runs'
          /\ owner'[pid] = owner[pid]
          /\ \/ runs'[pid].ended_at # runs[pid].ended_at
             \/ runs'[pid].returncode # runs[pid].returncode)
         => /\ runs[pid].status = "running"
            /\ runs'[pid].status \in TerminalStatuses]_vars

\* C19: in every state the supervisor reaches, a row with status running
\* has returncode NULL and ended_at NULL, and a row with a returncode has a
\* terminal status.
C19_RunningRowHasNoOutcome ==
    \A pid \in DOMAIN runs :
       /\ runs[pid].status = "running"
            => runs[pid].returncode = None /\ runs[pid].ended_at = None
       /\ runs[pid].returncode # None
            => runs[pid].status \in TerminalStatuses

\* The second run got the pid of the first, whose row had been written
\* with a return code and an end time, and its own row is running.
C19_Witness ==
    /\ nruns = 2
    /\ pidOf[1] = pidOf[2]
    /\ lastOf[1] # None
    /\ lastOf[1][1].returncode # None
    /\ lastOf[1][1].ended_at # None
    /\ HasRow(2)
    /\ Row(2).status = "running"

\* The columns update_run_status does not name.
Unnamed(row) ==
    [row EXCEPT !.status = "", !.returncode = None, !.ended_at = None]

\* A step that keeps the log paths of every row it does not create.
PathsKept ==
    \A p \in DOMAIN runs :
       (p \in DOMAIN runs' /\ owner'[p] = owner[p])
       => /\ runs'[p].stdout_path = runs[p].stdout_path
          /\ runs'[p].stderr_path = runs[p].stderr_path

\* C20, as claimed: update_run_status changes only status, returncode and
\* ended_at of the row of pid; the other columns of that row, started_at
\* among them, and every other row are unchanged; the log paths of a row
\* never change after its creation.
C20_UpdateChangesOnlyOutcomeColumns ==
    /\ [][Called("update_run_status")
          => /\ DOMAIN runs' = DOMAIN runs
             /\ \A p \in DOMAIN runs :
                  IF p = last'.pid
                  THEN Unnamed(runs'[p]) = Unnamed(runs[p])
                  ELSE runs'[p] = runs[p]]_vars
    /\ [][PathsKept]_vars

\* C20, amended: update_run_status changes only status, returncode and
\* ended_at of the row of pid, except that in any row a start timestamp
\* that was NULL or empty is filled in with the current time; the log
\* paths of a row never change after its creation.
C20_UpdateChangesOnlyOutcomeAndBackfill ==
    /\ [][Called("update_run_status")
          => /\ DOMAIN runs' = DOMAIN runs
             /\ \A p \in DOMAIN runs :
                  IF p = last'.pid
                  THEN SameButBackfill(Unnamed(runs[p]), Unnamed(runs'[p]), clock)
                  ELSE SameButBackfill(runs[p], runs'[p], clock)]_vars
    /\ [][PathsKept]_vars

\* update_run_status has changed the status of a row that has log paths
\* and a start time, while another row exists.
C20_Witness ==
    /\ last.op = "update_run_status"
    /\ last.before # None
    /\ last.before[1].status # runs[last.pid].status
    /\ last.before[1].stdout_path # ""
    /\ last.before[1].stderr_path # ""
    /\ ~LacksStart(last.before[1])
    /\ runs[last.pid].stdout_path = last.before[1].stdout_path
    /\ DOMAIN runs # {last.pid}

\* C21: no step of start_subprocess, the watcher, terminate_process or the
\* tail loop removes a registry row, and a row keeps its command as long as
\* no later start replaces it; so after terminate_process has returned True
\* for a run, get_run(pid) returns that run's row with the command it was
\* started with, which is not empty.
C21_RowsAreNeverDeleted ==
    /\ [][\A pid \in DOMAIN runs :
            /\ pid \in DOMAIN runs'
            /\ owner'[pid] = owner[pid]
                 => runs'[pid].command = runs[pid].command]_vars
    /\ []((/\ Returned
           /\ term.ret = "True"
           /\ term.p # NoRun
           /\ owner[term.pid] = term.p)
          => /\ get_run(term.pid) # None
             /\ get_run(term.pid)[1].command = Joined(term.p)
             /\ get_run(term.pid)[1].command # "")

\* terminate_process has returned True after writing the run's status, and
\* the row is still there under a terminal status.
C21_Witness ==
    /\ Returned
    /\ term.ret = "True"
    /\ term.wrote \in {"terminated", "killed"}
    /\ get_run(term.pid) # None
    /\ get_run(term.pid)[1].status \in {"terminated", "killed"}
    /\ get_run(term.pid)[1].command = Joined(term.p)

\* The tail loops running for pid whose stop event is not set.
LiveLoopsOf(pid) ==
    {t \in LoopIds : /\ tailer[t].state = "loop"
                     /\ tailer[t].pid = pid
                     /\ ~tailer[t].stop}

\* C22: at every instant at most one tail loop is running per pid, also
\* when two sessions call enable_auto_attach for the pid side by side; and
\* enable_auto_attach for a pid that has a tailer entry starts no loop and
\* returns True.
C22_OneTailLoopPerPid ==
    /\ [](\A pid \in Pids : Cardinality(LiveLoopsOf(pid)) <= 1)
    /\ [][\A c \in Sessions :
            (/\ att[c].pc = "idle"
             /\ att'[c] # att[c]
             /\ att'[c].pid \in DOMAIN ACTIVE_TAILERS)
            => /\ att'[c].ret = "True"
               /\ att'[c].pc = "idle"
               /\ tailer' = tailer]_vars

\* The loop of t is running and has a reason to end: its stop event is
\* set, its pid is not in the process table, or the process it was started
\* for has exited.
ShouldEnd(t) ==
    /\ tailer[t].state = "loop"
    /\ \/ tailer[t].stop
       \/ tailer[t].pid \notin DOMAIN ACTIVE_PROCS
       \/ os[tailer[t].run] # "alive"

\* C23: a tail loop whose process has exited or left the process table, or
\* whose stop event is set, ends; a round that observes one of these
\* forwards nothing; and when the loop ends the pid has no entry in the
\* tailer map.
C23_TailLoopEnds ==
    /\ \A t \in LoopIds : ShouldEnd(t) ~> tailer[t].state = "exited"
    /\ [][\A t \in LoopIds :
            (tailer[t].state = "loop" /\ tailer'[t].state = "exited")
            => /\ central' = central
               /\ tailer[t].pid \notin DOMAIN ACTIVE_TAILERS']_vars

\* C24: a round of the tail loop that reads from a log file leaves the
\* offset of that stream at the position where the read ended, the end of
\* the file, so that the next read starts with the first byte appended
\* after it, whatever characters the file holds.
C24_OffsetIsWhereTheReadEnded ==
    [][\A t \in LoopIds :
         (/\ tailer[t].state = "loop"
          /\ central' # central
          /\ central'[Len(central')].tailer = t)
         => \A s \in Streams :
               central'[Len(central')].data[s] # <<>>
               => tailer'[t].pos[s] = Len(logs[tailer[t].run][s])]_vars

\* C25: the test-then-update sequences on the three dictionaries are
\* atomic: while a session is between the membership tests of
\* enable_auto_attach and its insert, and while terminate_process is
\* between its lookup and its removal of the pid, no step of another thread
\* changes the dictionary entries of that pid.
C25_CheckThenUpdateIsAtomic ==
    /\ [][\A c \in Sessions :
            (att[c].pc = "checked" /\ att'[c] = att[c])
            => LET pid == att[c].pid
               IN  /\ Get(ACTIVE_TAILERS', pid) = Get(ACTIVE_TAILERS, pid)
                   /\ Get(ACTIVE_PROCS', pid) = Get(ACTIVE_PROCS, pid)
                   /\ (pid \in DOMAIN ACTIVE_LOG_PATHS')
                        = (pid \in DOMAIN ACTIVE_LOG_PATHS)]_vars
    /\ [][(term.pc \in {"poll", "sigkill"} /\ term' = term)
          => /\ Get(ACTIVE_PROCS', term.pid) = Get(ACTIVE_PROCS, term.pid)
             /\ Get(ACTIVE_TAILERS', term.pid) = Get(ACTIVE_TAILERS, term.pid)]_vars

\* C26: a registry write that fails does not disturb the life cycle.  When
\* add_run fails, start_subprocess returns the handle, the process is in
\* the process table and its watcher is started; when update_run_status
\* fails, terminate_process has the pid out of the three dictionaries and
\* returns True, and the watcher ends.
C26_FailedWriteIsSwallowed ==
    /\ [][(dbdown /\ start.pc = "spawned" /\ start'.pc = "idle")
          => LET r == start.run
             IN  /\ start'.res = "ok"
                 /\ start'.out # None
                 /\ start'.out[1].pid = pidOf[r]
                 /\ Get(ACTIVE_PROCS', pidOf[r]) = r
                 /\ pidOf[r] \in DOMAIN ACTIVE_LOG_PATHS'
                 /\ watch'[r] = "waiting"
                 /\ runs' = runs]_vars
    /\ [][(/\ dbdown
           /\ term.pc \in {"update_terminated", "update_killed"}
           /\ term'.pc = "idle")
          => /\ term'.ret = "True"
             /\ term.pid \notin DOMAIN ACTIVE_PROCS'
             /\ term.pid \notin DOMAIN ACTIVE_LOG_PATHS'
             /\ term.pid \notin DOMAIN ACTIVE_TAILERS'
             /\ runs' = runs]_vars
    /\ [][\A r \in Runs :
            (dbdown /\ watch[r] = "update" /\ watch'[r] # watch[r])
            => watch'[r] = "done" /\ runs' = runs]_vars

\* add_run failed when the run was started, so the run has no row, and the
\* failed status write of terminate_process was dropped as well: the call
\* returned True with the pid out of the process table.
C26_Witness ==
    /\ Returned
    /\ term.ret = "True"
    /\ term.wrote = "failed"
    /\ term.pid \notin DOMAIN runs
    /\ term.pid \notin DOMAIN ACTIVE_PROCS
    /\ watch[term.p] # "none"

\* The candidate lines of the last merge_log_tails call and its result.
Merged == last.op = "merge_log_tails"
OutLines == LastLines(last.args.out_file, last.args.max_lines)
ErrLines == LastLines(last.args.err_file, last.args.max_lines)
Ordered == last.result.entries
Stamp(line) == extract_timestamp(line.kind)
AnyStamp ==
    \/ \E i \in DOMAIN OutLines : Stamp(OutLines[i]) # None
    \/ \E i \in DOMAIN ErrLines : Stamp(ErrLines[i]) # None

\* Every candidate line is in the result once, as the line it was.
AllCandidates ==
    /\ Len(Ordered) = Len(OutLines) + Len(ErrLines)
    /\ \A i \in DOMAIN OutLines :
         \E k \in DOMAIN Ordered :
            Ordered[k].tag = "OUT" /\ Ordered[k].idx = i - 1
            /\ Ordered[k].line = OutLines[i]
    /\ \A i \in DOMAIN ErrLines :
         \E k \in DOMAIN Ordered :
            Ordered[k].tag = "ERR" /\ Ordered[k].idx = i - 1
            /\ Ordered[k].line = ErrLines[i]

\* C27: when a candidate line has a timestamp, the result holds all
\* candidate lines ordered by timestamp, lines without one after all lines
\* with one, then by stream tag, then by index in the stream; so the
\* timestamps never decrease along the result.
C27_SortedByTimestampTagIndex ==
    (Merged /\ AnyStamp)
    => /\ AllCandidates
       /\ \A i, j \in DOMAIN Ordered :
            i < j =>
              LET a == Ordered[i]
                  b == Ordered[j]
                  sa == Stamp(a.line)
                  sb == Stamp(b.line)
              IN  /\ sa = None => sb = None
                  /\ (sa # None /\ sb # None) => sa[1] <= sb[1]
                  /\ sa = sb => \/ a.tag = "ERR" /\ b.tag = "OUT"
                                \/ a.tag = b.tag /\ a.idx < b.idx

\* Both streams hold a line with a timestamp and a line without one, and
\* a line of stdout carries the same timestamp as a line of stderr.
C27_Witness ==
    /\ Merged
    /\ \E i, j \in DOMAIN OutLines :
          Stamp(OutLines[i]) = None /\ Stamp(OutLines[j]) # None
    /\ \E i, j \in DOMAIN ErrLines :
          Stamp(ErrLines[i]) = None /\ Stamp(ErrLines[j]) # None
    /\ \E i \in DOMAIN OutLines, j \in DOMAIN ErrLines :
          Stamp(OutLines[i]) # None /\ Stamp(OutLines[i]) = Stamp(ErrLines[j])
    /\ Len(Ordered) = 4

\* C28: when no candidate line has a timestamp, the result takes one line
\* of stdout, then one of stderr, and so on from the first lines, and when
\* the shorter stream is used up the rest of the longer one in order.
C28_FallbackAlternates ==
    (Merged /\ ~AnyStamp)
    => LET no == Len(OutLines)
           ne == Len(ErrLines)
       IN  /\ Len(Ordered) = no + ne
           /\ \A i \in 1..no :
                Ordered[IF i <= ne THEN 2 * i - 1 ELSE ne + i].line = OutLines[i]
           /\ \A i \in 1..ne :
                Ordered[IF i <= no THEN 2 * i ELSE no + i].line = ErrLines[i]
           /\ \A i \in 1..no :
                Ordered[IF i <= ne THEN 2 * i - 1 ELSE ne + i].tag = "OUT"

\* Two lines of stdout and two of stderr, none with a timestamp, the two
\* streams different.
C28_Witness ==
    /\ Merged
    /\ ~AnyStamp
    /\ Len(OutLines) = 2
    /\ Len(ErrLines) = 2
    /\ OutLines[1].kind # ErrLines[1].kind
    /\ Ordered[2].tag = "ERR"
    /\ Ordered[3].tag = "OUT"

\* The lines of a text: the bodies between one newline and the next.
RECURSIVE TextLines(_, _)
TextLines(text, cur) ==
    IF text = <<>> THEN (IF cur = <<>> THEN <<>> ELSE <<cur>>)
    ELSE IF "newline" \in DOMAIN Head(text)
    THEN <<cur>> \o TextLines(Tail(text), <<>>)
    ELSE TextLines(Tail(text), Append(cur, Head(text).body))

\* How often x occurs in the sequence q.
Count(q, x) == Cardinality({i \in DOMAIN q : q[i] = x})

\* C29: the text merge_log_tails returns consists of exactly the last N
\* lines of stdout and the last N lines of stderr: each of them is a line
\* of the text as often as it is a candidate, with its content unchanged,
\* and the text has no other line.
C29_OutputIsPermutationOfCandidates ==
    Merged
    => LET got == TextLines(last.result.text, <<>>)
           want == [i \in 1..(Len(OutLines) + Len(ErrLines)) |->
                      IF i <= Len(OutLines)
                      THEN <<OutLines[i].kind>>
                      ELSE <<ErrLines[i - Len(OutLines)].kind>>]
       IN  /\ Len(got) = Len(want)
           /\ \A i \in DOMAIN want : Count(got, want[i]) = Count(want, want[i])

\* C30: when start_subprocess has returned, the log paths in the child's
\* environment are the stdout_path and stderr_path of the handle returned,
\* of the log-path map and of the registry row.
C30_ChildEnvNamesItsLogFiles ==
    (start.pc = "idle" /\ start.res = "ok")
    => LET pid == start.out[1].pid
           env == start.child_env[1]
       IN  /\ env.DASHBOARD_CHILD_LOG_STDOUT = start.out[1].stdout_path
           /\ env.DASHBOARD_CHILD_LOG_STDERR = start.out[1].stderr_path
           /\ pid \in DOMAIN ACTIVE_LOG_PATHS
                => /\ env.DASHBOARD_CHILD_LOG_STDOUT = ACTIVE_LOG_PATHS[pid].stdout
                   /\ env.DASHBOARD_CHILD_LOG_STDERR = ACTIVE_LOG_PATHS[pid].stderr
           /\ HasRow(start.run)
                => /\ env.DASHBOARD_CHILD_LOG_STDOUT = Row(start.run).stdout_path
                   /\ env.DASHBOARD_CHILD_LOG_STDERR = Row(start.run).stderr_path

\* C31: init_db run again on a store changes nothing more, whatever the
\* time, and never changes a row that has a start timestamp; and every row
\* get_run or list_runs returns has a started_at that is neither NULL nor
\* empty.
C31_InitDbIdempotentAndBackfills ==
    /\ [](\A t1, t2 \in 0..MaxClock :
            /\ init_db(init_db(runs, t1), t2) = init_db(runs, t1)
            /\ DOMAIN init_db(runs, t1) = DOMAIN runs
            /\ \A p \in DOMAIN runs :
                 ~LacksStart(runs[p]) => init_db(runs, t1)[p] = runs[p])
    /\ [][Called("get_run") /\ last'.result # None
          => ~LacksStart(last'.result[1])]_vars
    /\ [][Called("list_runs")
          => \A i \in DOMAIN last'.result : ~LacksStart(last'.result[i])]_vars

\* get_run has returned a row that was stored with an empty started_at,
\* and the row it returned carries the time of the call.
C31_Witness ==
    /\ last.op = "get_run"
    /\ last.before # None
    /\ last.before[1].started_at = Some(EmptyText)
    /\ last.result # None
    /\ last.result[1].started_at = Some(clock)

\* Run r ended by itself, its watcher has recorded it, no terminate_process
\* call was made for it, and no later run was started under its pid.
EndedByItself(r) ==
    /\ r <= nruns
    /\ sig[r] = NoSignal
    /\ wlog[r] # <<>>
    /\ r \notin stopped
    /\ term.p # r
    /\ \A q \in Runs : (q > r /\ q <= nruns) => pidOf[q] # pidOf[r]

\* C32: for a run that ended by itself and was never terminated,
\* get_status(pid) answers known = True, running = False and the return
\* code the watcher recorded with status finished, for as long as the pid
\* is that run's; the pid never leaves the process table.
C32_StatusOfRunThatEndedByItself ==
    \A r \in Runs :
       EndedByItself(r)
       => /\ Get(ACTIVE_PROCS, pidOf[r]) = r
          /\ wlog[r][1].status = "finished"
          /\ get_status_result(pidOf[r]) =
               [known |-> TRUE, running |-> FALSE,
                returncode |-> wlog[r][1].returncode]
          /\ wlog[r][1].returncode # None

\* The first run ended by itself and is recorded as finished, a second run
\* was started and terminated meanwhile, and the clock moved on.
C32_Witness ==
    /\ EndedByItself(1)
    /\ HasRow(1)
    /\ Row(1).status = "finished"
    /\ nruns = 2
    /\ 2 \in stopped
    /\ clock = MaxClock
    /\ UiIdle

\* C33: terminate_process records status killed only when the process had
\* not yet exited at the moment the kill signal was sent; a process that
\* exited after the graceful signal and before the deadline, the last
\* polling sleep included, is recorded as terminated.
C33_KilledOnlyIfAliveAtKill ==
    (term.wrote \in {"terminated", "killed"} /\ term.late)
    => term.wrote = "terminated"

\* C34: terminate_process signals only the process group start_subprocess
\* created for the run; no terminate or kill signal reaches a process group
\* of another process, also when the tracked process has exited, has been
\* reaped, and its pid has been given out again.
C34_SignalsOnlyItsOwnGroup ==
    \A pid \in Pids : foreign[pid] # "signalled"

\* C35: a status write issued for one run, by its watcher or by
\* terminate_process, changes the status of that run's row only; it never
\* changes the status of a newer run started under the same, reused pid.
C35_StatusWriteChangesOwnRowOnly ==
    [][\A r \in Runs :
         (wlog'[r] # wlog[r] \/ tlog'[r] # tlog[r])
         => \A pid \in DOMAIN runs :
              runs'[pid].status # runs[pid].status => owner[pid] = r]_vars

\* C36: the row of a run that shows status running gets another status
\* once the process of the run has exited, also when the controlling
\* process was restarted while the child was running.
C36_RunningRowOfExitedRunEnds ==
    \A r \in Runs :
       (HasRow(r) /\ Row(r).status = "running" /\ Exited(r))
       ~> ~(HasRow(r) /\ Row(r).status = "running")

\* C37: while no start_subprocess or terminate_process call is in progress
\* the process table and the log-path map have the same keys.
C37_TablesHaveTheSameKeys ==
    UiIdle => DOMAIN ACTIVE_PROCS = DOMAIN ACTIVE_LOG_PATHS

\* C38: when enable_auto_attach(pid) returns True, a tail loop of pid
\* whose stop event is not set is running or about to run, also when the
\* call follows disable_auto_attach while the old loop has not yet ended.
C38_TrueMeansALiveTailLoop ==
    [][\A c \in Sessions :
         (att'[c] # att[c] /\ att'[c].pc = "idle" /\ att'[c].ret = "True")
         => \E t \in LoopIds :
              /\ tailer'[t].pid = att'[c].pid
              /\ tailer'[t].state = "loop"
              /\ ~tailer'[t].stop]_vars

AsciiOnly(file) == \A i \in DOMAIN file : file[i] = Ascii

\* C39: while auto-attach is on for a pid and is not switched off, what
\* the process has appended to a log file and the loop has not yet read is
\* read and forwarded later, also what was written between the loop's last
\* read and the exit of the process.  Stated for files of one-byte
\* characters, where the offset of the loop counts bytes.
C39_UnreadOutputIsForwarded ==
    \A t \in LoopIds, s \in Streams :
       (tailer[t].state = "loop" /\ tailer[t].pos[s] < Len(FileOf(t, s)))
       ~> \/ tailer[t].stop
          \/ tailer[t].pos[s] >= Len(FileOf(t, s))
          \/ ~AsciiOnly(FileOf(t, s))

\* C40: merge_log_tails keeps the lines of one stream in the order of their
\* file: of two lines of stdout, or of stderr, the one earlier in the file
\* is earlier in the result, in the sorted mode (lines without a timestamp
\* included) and in the fallback mode.
C40_StreamOrderIsKept ==
    Merged
    => \A i, j \in DOMAIN Ordered :
          (i < j /\ Ordered[i].tag = Ordered[j].tag)
          => Ordered[i].idx < Ordered[j].idx

====
